---- MODULE Spec2Model ----
(***************************************************************************)
(* Page-arrangement and sectioning model of the PDF splitter               *)
(* (src/pages/index.tsx, the slot-keyed front-end), with the handlers of   *)
(* the value-keyed front-end (src/pages/index_colorful.tsx) where they     *)
(* differ.                                                                 *)
(*                                                                         *)
(* Slot positions are 0-based as in the source; the TLA+ sequence that     *)
(* holds pageOrder is 1-based, so slot p is pageOrder[p + 1].              *)
(***************************************************************************)
EXTENDS Integers, Sequences, FiniteSets, TLC

(* ---- bounds ---- *)
MaxPages == 3
MaxLen == 4
MaxInterval == 2
Scale == 2
MaxStreak == 5
MaxPresses == 3
MaxRotated == 2
MaxEvaluations == 2

VARIABLES file, docStatus, numPages, pageOrder, rotations, splitIndices,
          autoSplitEnabled, autoSplitInterval, skippedSections,
          run, run2, previewPosition, previewPage, event, streak, before

vars == <<file, docStatus, numPages, pageOrder, rotations, splitIndices,
          autoSplitEnabled, autoSplitInterval, skippedSections,
          run, run2, previewPosition, previewPage, event, streak, before>>

(* ---- JavaScript array helpers (0-based) ---- *)

Min(a, b) == IF a <= b THEN a ELSE b

Max(a, b) == IF a >= b THEN a ELSE b

\* Array.prototype.indexOf: first 0-based position of x, -1 when absent
IndexOf(arr, x) ==
  IF \E k \in 1..Len(arr) : arr[k] = x
  THEN (CHOOSE k \in 1..Len(arr) : arr[k] = x /\ \A j \in 1..(k - 1) : arr[j] # x) - 1
  ELSE 0 - 1

\* relative index of slice/splice: negative counts from the end, clamped to [0, len]
RelIndex(i, len) == IF i < 0 THEN Max(len + i, 0) ELSE Min(i, len)

\* Array.prototype.slice(from, to): slots from..to-1
Slice(arr, from, to) ==
  LET a == RelIndex(from, Len(arr))
      b == RelIndex(to, Len(arr))
  IN  IF b <= a THEN << >> ELSE SubSeq(arr, a + 1, b)

\* copy.splice(at, 0, x): insert x before slot at
SpliceInsert(arr, at, x) ==
  LET a == RelIndex(at, Len(arr))
  IN  SubSeq(arr, 1, a) \o <<x>> \o SubSeq(arr, a + 1, Len(arr))

\* copy.splice(at, 1): remove the slot at
SpliceRemove(arr, at) ==
  LET a == RelIndex(at, Len(arr))
  IN  SubSeq(arr, 1, a) \o SubSeq(arr, a + 2, Len(arr))

\* Array.from(set).sort((a, b) => a - b)
RECURSIVE SortAsc(_)
SortAsc(S) ==
  IF S = {} THEN << >>
  ELSE LET m == CHOOSE x \in S : \A y \in S : x <= y
       IN  <<m>> \o SortAsc(S \ {m})

\* Array.from(Array(n).keys())
Identity(n) == [k \in 1..n |-> k - 1]

(* ---- rotatePage (index.tsx 67-74) ---- *)

NoRotations == [k \in {} |-> 0]

\* prev[logicalIndex] || 0
RotationOf(map, logicalIndex) ==
  IF logicalIndex \in DOMAIN map THEN map[logicalIndex] ELSE 0

Delta(direction) == IF direction = "left" THEN 0 - 90 ELSE 90

\* variant: the angle is not reduced modulo a full turn
Updated_noModulo(current, direction) == current + Delta(direction)

\* variant: the angle saturates at the ends of the range instead of wrapping
Updated_clamped(current, direction) == Max(0, Min(270, current + Delta(direction)))

\* ((current + delta + 360) % 360); the dividend is never negative here
Updated(current, direction) == (current + Delta(direction) + 360) % 360

\* the updater passed to setRotations: { ...prev, [logicalIndex]: updated }
\* variant: the updater returns the new entry without ...prev
rotatePage_onlyEntry(prev, logicalIndex, direction) ==
  [k \in {logicalIndex} |-> Updated(RotationOf(prev, logicalIndex), direction)]

rotatePage(prev, logicalIndex, direction) ==
  [k \in DOMAIN prev \cup {logicalIndex} |->
     IF k = logicalIndex
     THEN Updated(RotationOf(prev, logicalIndex), direction)
     ELSE prev[k]]

\* rotatePage applied k times to one entry, starting from the angle current
RECURSIVE RotateTimes(_, _, _)
RotateTimes(current, direction, k) ==
  IF k = 0 THEN current
  ELSE RotateTimes(Updated(current, direction), direction, k - 1)

(* ---- duplicatePage (index.tsx 79-87) ---- *)

\* variant: the copy is appended at the end instead of next to the original
duplicatePage_append(prev, logicalIndex) ==
  SpliceInsert(prev, Len(prev), logicalIndex)

\* variant: the 1-based page number is stored instead of the logical index
duplicatePage_pageNumber(prev, logicalIndex) ==
  SpliceInsert(prev, IndexOf(prev, logicalIndex) + 1, logicalIndex + 1)

\* the updater passed to setPageOrder
duplicatePage(prev, logicalIndex) ==
  LET insertIndex == IndexOf(prev, logicalIndex) + 1
  IN  SpliceInsert(prev, insertIndex, logicalIndex)

(* ---- deletePageAt (index.tsx 93-114) ---- *)

\* variant: every slot holding the same page as the slot at position goes
deletePageAt_allOccurrences(prev, position) ==
  IF position < 0 \/ position >= Len(prev) THEN prev
  ELSE LET keep == {k \in 1..Len(prev) : prev[k] # prev[position + 1]}
           kth[n \in 1..Len(prev)] ==
             CHOOSE k \in keep : Cardinality({j \in keep : j < k}) = n - 1
       IN  [n \in 1..Cardinality(keep) |-> prev[kth[n]]]

\* variant: the position is handed to splice unchecked
deletePageAt_unchecked(prev, position) == SpliceRemove(prev, position)

\* the updater passed to setPageOrder
deletePageAt(prev, position) ==
  IF position < 0 \/ position >= Len(prev) THEN prev
  ELSE SpliceRemove(prev, position)

\* variant: markers after the removed slot are kept where they were
shiftSplits_noShift(prevSplits, position, next) ==
  LET maxPos == Max(0, Len(next) - 1)
  IN  {pos \in prevSplits : pos # position /\ pos <= maxPos}

\* the updater passed to setSplitIndices from inside the pageOrder updater;
\* next is the page order after the removal
shiftSplits(prevSplits, position, next) ==
  LET maxPos == Max(0, Len(next) - 1)
  IN  {pos \in prevSplits : pos < position /\ pos <= maxPos}
      \cup {pos - 1 : pos \in {q \in prevSplits : q > position /\ q - 1 <= maxPos}}

(* ---- toggleSplit (index.tsx 119-130) ---- *)

\* variant: the position is added whether or not it is marked already
toggleSplit_addOnly(prev, position) == prev \cup {position}

\* the updater passed to setSplitIndices
toggleSplit(prev, position) ==
  IF position \in prev THEN prev \ {position} ELSE prev \cup {position}

(* ---- skip toggle (index.tsx 462-473) ---- *)

toggleSkip(prev, idx) ==
  IF idx \in prev THEN prev \ {idx} ELSE prev \cup {idx}

(* ---- buildSections (index.tsx 135-156) ---- *)

\* The interval is held in units of 1/Scale (Scale = 2: halves), so that a
\* typed value such as 1.5 is representable; slice() truncates its
\* fractional arguments.
\* variant: the loop stops as soon as a whole chunk no longer fits
RECURSIVE IntervalSections_fullOnly(_, _, _)
IntervalSections_fullOnly(order, interval, i) ==
  IF i + interval <= Len(order) * Scale
  THEN <<Slice(order, i \div Scale, (i + interval) \div Scale)>>
       \o IntervalSections_fullOnly(order, interval, i + interval)
  ELSE << >>

RECURSIVE IntervalSections(_, _, _)
IntervalSections(order, interval, i) ==
  IF i < Len(order) * Scale
  THEN <<Slice(order, i \div Scale, (i + interval) \div Scale)>>
       \o IntervalSections(order, interval, i + interval)
  ELSE << >>

\* variant: a section stops before the marked slot (slice(start, end))
RECURSIVE ManualSections_exclusive(_, _, _)
ManualSections_exclusive(order, sortedPositions, start) ==
  IF sortedPositions = << >> THEN <<Slice(order, start, Len(order))>>
  ELSE LET pos == Head(sortedPositions)
           end == Min(pos, Len(order) - 1)
       IN  IF end >= start
           THEN <<Slice(order, start, end)>>
                \o ManualSections_exclusive(order, Tail(sortedPositions), end + 1)
           ELSE ManualSections_exclusive(order, Tail(sortedPositions), start)

\* variant: the slots after the last marker are not pushed
RECURSIVE ManualSections_noTrailing(_, _, _)
ManualSections_noTrailing(order, sortedPositions, start) ==
  IF sortedPositions = << >> THEN << >>
  ELSE LET pos == Head(sortedPositions)
           end == Min(pos, Len(order) - 1)
       IN  IF end >= start
           THEN <<Slice(order, start, end + 1)>>
                \o ManualSections_noTrailing(order, Tail(sortedPositions), end + 1)
           ELSE ManualSections_noTrailing(order, Tail(sortedPositions), start)

\* the for-of loop over sortedPositions followed by the trailing push
RECURSIVE ManualSections(_, _, _)
ManualSections(order, sortedPositions, start) ==
  IF sortedPositions = << >> THEN <<Slice(order, start, Len(order))>>
  ELSE LET pos == Head(sortedPositions)
           end == Min(pos, Len(order) - 1)
       IN  IF end >= start
           THEN <<Slice(order, start, end + 1)>>
                \o ManualSections(order, Tail(sortedPositions), end + 1)
           ELSE ManualSections(order, Tail(sortedPositions), start)

buildSections(order, enabled, interval, splits) ==
  IF Len(order) = 0 THEN << >>
  ELSE IF enabled /\ interval > 0 THEN IntervalSections(order, interval, 0)
  ELSE ManualSections(order, SortAsc(splits), 0)

sections == buildSections(pageOrder, autoSplitEnabled, autoSplitInterval, splitIndices)

(* ---- interval input (index.tsx 426-434) ---- *)

\* what can be typed into the number field: a number (in units of 1/Scale)
\* or text that Number() turns into NaN (empty field included: Number("") is
\* 0 and falls to the same || 1 branch)
TypedValues ==
  {[isNumber |-> FALSE, v |-> 0]}
  \cup {[isNumber |-> TRUE, v |-> k] : k \in (0 - Scale)..(MaxInterval * Scale)}

\* variant: the typed number is stored as it is
IntervalFromInput_raw(typed) == IF typed.isNumber THEN typed.v ELSE Scale

\* Math.max(1, Number(e.target.value) || 1)
IntervalFromInput(typed) ==
  LET n == IF typed.isNumber /\ typed.v # 0 THEN typed.v ELSE Scale
  IN  Max(Scale, n)

(* ---- generateAndDownloadSplits (index.tsx 204-238) ---- *)

\* the file state is null or a File picked by the user; the application
\* learns nothing about a File before a library has parsed it
NoFile == "null"

PickedFile == "File"

\* variant: the skip set is ignored
sectionsToDownload_all(secs, skipped) == secs

\* sections.filter((_, idx) => !skippedSections.has(idx))
sectionsToDownload(secs, skipped) ==
  LET kept[k \in 0..Len(secs)] ==
        IF k = 0 THEN << >>
        ELSE IF (k - 1) \in skipped THEN kept[k - 1]
        ELSE Append(kept[k - 1], secs[k])
  IN  kept[Len(secs)]

\* no export has been started
\* calls: the awaited codec calls that have resolved or rejected
\* shown: whether <Document> had finished loading the captured file, whose
\* page count is then shownPages; pages: the page count PDFDocument.load finds
NoRun ==
  [pc |-> "idle", file |-> NoFile, shown |-> FALSE, shownPages |-> 0,
   sections |-> << >>, skipped |-> {}, rotations |-> NoRotations,
   pages |-> 0, toDownload |-> << >>, i |-> 0, j |-> 0,
   doc |-> << >>, files |-> << >>, alerts |-> 0, calls |-> 0]

\* the awaits at which a run can be suspended
InFlight == {"load", "create", "copy", "save"}

(* ---- state ---- *)

Directions == {"left", "right"}

NoEvent == [op |-> "none", arg |-> 0, how |-> ""]

NoStreak == [page |-> 0, dir |-> "", start |-> 0, count |-> 0]

\* no run of repeated presses of one control is under way
NoBefore == [op |-> "none", arg |-> 0, splitIndices |-> {}, sections |-> << >>, count |-> 0]

\* previewPosition is null or a slot position (index.tsx 40): the empty
\* sequence or a sequence of one number.  previewPage, the cursor of the
\* value-keyed front-end, is null or a logical page index
\* (index_colorful.tsx 21), held the same way.
NoPreview == << >>

\* the page the preview modal shows, or null (index.tsx 174-188); the copy
\* counters of the modal's header are left out
previewContext(currentFile, order, position) ==
  IF position # NoPreview /\ position[1] >= 0 /\ position[1] < Len(order)
     /\ currentFile # NoFile
  THEN <<[logicalIndex |-> order[position[1] + 1]]>>
  ELSE << >>

\* variant: no effect closes the preview
PreviewEffect_none(nextFile, nextOrder, position) == position

\* the effect run after a render in which file, pageOrder or previewPosition
\* changed (index.tsx 192-197)
PreviewEffect(nextFile, nextOrder, position) ==
  IF position = NoPreview THEN position
  ELSE IF nextFile = NoFile \/ position[1] < 0 \/ position[1] >= Len(nextOrder)
       THEN NoPreview
       ELSE position

\* useState initial values (index.tsx 29-40); the interval 1 is Scale/Scale
Init ==
  /\ file = NoFile
  /\ docStatus = "none"
  /\ numPages = 0
  /\ pageOrder = << >>
  /\ rotations = NoRotations
  /\ splitIndices = {}
  /\ autoSplitEnabled = FALSE
  /\ autoSplitInterval = Scale
  /\ skippedSections = {}
  /\ run = NoRun
  /\ run2 = NoRun
  /\ previewPosition = NoPreview
  /\ previewPage = NoPreview
  /\ event = NoEvent
  /\ streak = NoStreak
  /\ before = NoBefore

\* the page grid is the child of <Document>, which renders its children only
\* once the selected file has been loaded (index.tsx 247-262)
GridShown == file # NoFile /\ docStatus = "loaded"

(* ---- file input onChange (index.tsx 403-411) and handleFileChange (57-62) ---- *)

\* the file dialog closed: resetSkips(), then handleFileChange.  With a file
\* picked, setFile(selected) makes <Document> load it; with none (the dialog
\* was cancelled) the file state stays as it is.
HandleFileChange(selected) ==
  /\ skippedSections' = {}
  /\ IF selected # NoFile
     THEN file' = selected /\ docStatus' = "loading"
     ELSE UNCHANGED <<file, docStatus>>
  /\ event' = [op |-> "file", arg |-> 0, how |-> ""]
  /\ UNCHANGED <<run, numPages, pageOrder, rotations, splitIndices,
                 autoSplitEnabled, autoSplitInterval, streak>>
  /\ before' = NoBefore
  /\ previewPosition' = PreviewEffect(file', pageOrder', previewPosition)
  /\ UNCHANGED <<run2, previewPage>>

(* ---- <Document onLoadSuccess> (index.tsx 250-253) and onDocumentLoadSuccess (45-52) ---- *)

\* variant: the split markers of the previous document are kept
onDocumentLoadSuccess_keepSplits(nextNumPages) ==
  /\ numPages' = nextNumPages
  /\ pageOrder' = Identity(nextNumPages)
  /\ rotations' = NoRotations
  /\ splitIndices' = splitIndices
  /\ skippedSections' = {}

onDocumentLoadSuccess(nextNumPages) ==
  /\ numPages' = nextNumPages
  /\ pageOrder' = Identity(nextNumPages)
  /\ rotations' = NoRotations
  /\ splitIndices' = {}
  /\ skippedSections' = {}

\* the library has parsed the file and reports its page count
OnLoadSuccess(nextNumPages) ==
  /\ docStatus = "loading"
  /\ onDocumentLoadSuccess(nextNumPages)
  /\ docStatus' = "loaded"
  /\ event' = [op |-> "load", arg |-> nextNumPages,
               how |-> IF numPages > 0 THEN "again" ELSE "first"]
  /\ streak' = NoStreak
  /\ before' = NoBefore
  /\ UNCHANGED <<run, run2, previewPage, file, autoSplitEnabled, autoSplitInterval>>
  /\ previewPosition' = PreviewEffect(file', pageOrder', previewPosition)

\* the library rejects the bytes; no onLoadError handler is installed
OnLoadError ==
  /\ docStatus = "loading"
  /\ docStatus' = "failed"
  /\ event' = [op |-> "loadError", arg |-> 0, how |-> ""]
  /\ UNCHANGED <<run, file, numPages, pageOrder, rotations, splitIndices,
                 autoSplitEnabled, autoSplitInterval, skippedSections, streak>>
  /\ before' = NoBefore
  /\ UNCHANGED <<run2, previewPosition, previewPage>>

(* ---- page buttons (index.tsx 291-326, 355-367) ---- *)

\* the run of consecutive rotations of one page in one direction
NextStreak(logicalIndex, direction) ==
  IF streak.count > 0 /\ streak.count < MaxStreak
     /\ streak.page = logicalIndex /\ streak.dir = direction
  THEN [streak EXCEPT !.count = streak.count + 1]
  ELSE [page |-> logicalIndex, dir |-> direction,
        start |-> RotationOf(rotations, logicalIndex), count |-> 1]

\* rotate buttons of the slot at position, which shows logical page pageOrder[position]
RotateButton(position, direction) ==
  /\ GridShown
  /\ position \in 0..(Len(pageOrder) - 1)
  /\ LET logicalIndex == pageOrder[position + 1]
     IN  /\ rotations' = rotatePage(rotations, logicalIndex, direction)
         /\ event' = [op |-> "rotate", arg |-> logicalIndex, how |-> direction]
  /\ UNCHANGED <<run, file, docStatus, numPages, pageOrder, splitIndices,
                 autoSplitEnabled, autoSplitInterval, skippedSections>>

RotatePage(position, direction) ==
  /\ RotateButton(position, direction)
  /\ UNCHANGED streak
  /\ before' = NoBefore
  /\ UNCHANGED <<run2, previewPosition, previewPage>>

\* the same step, also counting the run of equal rotations it belongs to
RotatePageCounted(position, direction) ==
  /\ RotateButton(position, direction)
  /\ streak' = NextStreak(pageOrder[position + 1], direction)
  /\ before' = NoBefore
  /\ UNCHANGED <<run2, previewPosition, previewPage>>

DuplicatePage(position) ==
  /\ GridShown
  /\ position \in 0..(Len(pageOrder) - 1)
  /\ Len(pageOrder) < MaxLen
  /\ LET logicalIndex == pageOrder[position + 1]
     IN  /\ pageOrder' = duplicatePage(pageOrder, logicalIndex)
         /\ event' = [op |-> "duplicate", arg |-> logicalIndex, how |-> ""]
  /\ skippedSections' = {}
  /\ UNCHANGED <<run, file, docStatus, numPages, rotations, splitIndices,
                 autoSplitEnabled, autoSplitInterval, streak>>
  /\ before' = NoBefore
  /\ previewPosition' = PreviewEffect(file', pageOrder', previewPosition)
  /\ UNCHANGED <<run2, previewPage>>

DeletePageAt(position) ==
  /\ GridShown
  /\ position \in 0..(Len(pageOrder) - 1)
  /\ LET next == deletePageAt(pageOrder, position)
     IN  /\ pageOrder' = next
         /\ splitIndices' = IF position < 0 \/ position >= Len(pageOrder)
                            THEN splitIndices
                            ELSE shiftSplits(splitIndices, position, next)
  /\ skippedSections' = {}
  /\ event' = [op |-> "delete", arg |-> position,
               how |-> IF previewPosition # NoPreview
                          /\ previewPosition[1] >= Len(pageOrder) - 1
                       THEN "previewAtEnd" ELSE ""]
  /\ UNCHANGED <<run, file, docStatus, numPages, rotations,
                 autoSplitEnabled, autoSplitInterval, streak>>
  /\ before' = NoBefore
  /\ previewPosition' = PreviewEffect(file', pageOrder', previewPosition)
  /\ UNCHANGED <<run2, previewPage>>

\* variant: the skip set survives a marker toggle
ToggleSplit_keepSkips(position) ==
  /\ GridShown
  /\ position \in 0..(Len(pageOrder) - 2)
  /\ splitIndices' = toggleSplit(splitIndices, position)
  /\ event' = [op |-> "toggleSplit", arg |-> position, how |-> ""]
  /\ UNCHANGED <<run, file, docStatus, numPages, pageOrder, rotations, skippedSections,
                 autoSplitEnabled, autoSplitInterval, streak>>
  /\ before' = NoBefore
  /\ UNCHANGED <<run2, previewPosition, previewPage>>

\* the split button is rendered for every slot but the last (!isLast)
ToggleSplit(position) ==
  /\ GridShown
  /\ position \in 0..(Len(pageOrder) - 2)
  /\ splitIndices' = toggleSplit(splitIndices, position)
  /\ skippedSections' = {}
  /\ event' = [op |-> "toggleSplit", arg |-> position, how |-> ""]
  /\ UNCHANGED <<run, file, docStatus, numPages, pageOrder, rotations,
                 autoSplitEnabled, autoSplitInterval, streak>>
  /\ before' = NoBefore
  /\ UNCHANGED <<run2, previewPosition, previewPage>>

(* ---- sidebar controls (index.tsx 415-434, 462-473) ---- *)

\* variant: entering interval mode also empties the stored markers
AutoSplitCheckbox_clearSplits(checked) ==
  /\ checked # autoSplitEnabled
  /\ autoSplitEnabled' = checked
  /\ splitIndices' = IF checked THEN {} ELSE splitIndices
  /\ skippedSections' = {}
  /\ event' = [op |-> "autoSplit", arg |-> IF checked THEN 1 ELSE 0, how |-> ""]
  /\ UNCHANGED <<run, file, docStatus, numPages, pageOrder, rotations,
                 autoSplitInterval, streak>>

\* the checkbox's onChange: setAutoSplitEnabled(e.target.checked); resetSkips()
AutoSplitCheckbox(checked) ==
  /\ checked # autoSplitEnabled
  /\ autoSplitEnabled' = checked
  /\ skippedSections' = {}
  /\ event' = [op |-> "autoSplit", arg |-> IF checked THEN 1 ELSE 0, how |-> ""]
  /\ UNCHANGED <<run, file, docStatus, numPages, pageOrder, rotations, splitIndices,
                 autoSplitInterval, streak>>

SetAutoSplitEnabled(checked) ==
  /\ AutoSplitCheckbox(checked)
  /\ before' = NoBefore
  /\ UNCHANGED <<run2, previewPosition, previewPage>>

\* variant: a new interval leaves the skip set as it is
SetAutoSplitInterval_keepSkips(typed) ==
  /\ autoSplitInterval' = IntervalFromInput(typed)
  /\ event' = [op |-> "interval", arg |-> 0, how |-> ""]
  /\ UNCHANGED <<run, file, docStatus, numPages, pageOrder, rotations, splitIndices,
                 autoSplitEnabled, skippedSections, streak>>
  /\ before' = NoBefore
  /\ UNCHANGED <<run2, previewPosition, previewPage>>

SetAutoSplitInterval(typed) ==
  /\ autoSplitInterval' = IntervalFromInput(typed)
  /\ skippedSections' = {}
  /\ event' = [op |-> "interval", arg |-> 0, how |-> ""]
  /\ UNCHANGED <<run, file, docStatus, numPages, pageOrder, rotations, splitIndices,
                 autoSplitEnabled, streak>>
  /\ before' = NoBefore
  /\ UNCHANGED <<run2, previewPosition, previewPage>>

\* the same change of the interval field, also remembering what was typed
SetAutoSplitIntervalTyped(typed) ==
  /\ autoSplitInterval' = IntervalFromInput(typed)
  /\ skippedSections' = {}
  /\ event' = [op |-> "interval", arg |-> typed.v,
               how |-> IF typed.isNumber THEN "number" ELSE "text"]
  /\ UNCHANGED <<run, file, docStatus, numPages, pageOrder, rotations, splitIndices,
                 autoSplitEnabled, streak>>
  /\ before' = NoBefore
  /\ UNCHANGED <<run2, previewPosition, previewPage>>

\* one Remove/Restore button per computed section
ToggleSkip(idx) ==
  /\ idx \in 0..(Len(sections) - 1)
  /\ skippedSections' = toggleSkip(skippedSections, idx)
  /\ event' = [op |-> "skip", arg |-> 0, how |-> ""]
  /\ UNCHANGED <<run, file, docStatus, numPages, pageOrder, rotations, splitIndices,
                 autoSplitEnabled, autoSplitInterval, streak>>
  /\ before' = NoBefore
  /\ UNCHANGED <<run2, previewPosition, previewPage>>

(* ---- Download button (index.tsx 489-496) and the export run (204-238) ---- *)

\* The handler closes over file, sections, skippedSections and rotations of
\* the render in which the button was pressed, and is suspended at its first
\* await.
CapturedRun ==
  [NoRun EXCEPT !.pc = "load", !.file = file,
                !.shown = (docStatus = "loaded"),
                !.shownPages = IF docStatus = "loaded" THEN numPages ELSE 0,
                !.sections = sections,
                !.skipped = skippedSections, !.rotations = rotations]

\* a press of the button while no run is suspended; run follows this run
StartExport ==
  /\ file # NoFile
  /\ Len(sections) # 0
  /\ run.pc \notin InFlight
  /\ run' = CapturedRun
  /\ event' = [op |-> "export", arg |-> 0, how |-> ""]
  /\ UNCHANGED <<file, docStatus, numPages, pageOrder, rotations, splitIndices,
                 autoSplitEnabled, autoSplitInterval, skippedSections, streak>>
  /\ before' = NoBefore
  /\ UNCHANGED <<run2, previewPosition, previewPage>>

\* variant: a step of a run empties the skip set
ExportFrame_resetSkips ==
  /\ skippedSections' = {}
  /\ UNCHANGED <<file, docStatus, numPages, pageOrder, rotations, splitIndices,
                 autoSplitEnabled, autoSplitInterval, event, streak>>
  /\ before' = NoBefore
  /\ UNCHANGED <<run2, previewPosition, previewPage>>

\* generateAndDownloadSplits calls no state setter (index.tsx 204-238)
ExportFrame ==
  /\ UNCHANGED <<file, docStatus, numPages, pageOrder, rotations, splitIndices,
                 autoSplitEnabled, autoSplitInterval, skippedSections, event, streak>>
  /\ before' = NoBefore
  /\ UNCHANGED <<run2, previewPosition, previewPage>>

\* variant: the loop never moves on
AfterSection_stay(r, i) == r

\* the position reached after section i has been handled up to its save
AfterSection(r, i) ==
  IF i < Len(r.toDownload) THEN [r EXCEPT !.pc = "create", !.i = i, !.j = 0]
  ELSE [r EXCEPT !.pc = "done", !.i = i, !.j = 0]

\* variant: line 210 filters the sections and the skip set of the latest
\* render, not those of the render of the press
AfterLoad_live(r, sourcePages) ==
  AfterSection([r EXCEPT !.pages = sourcePages,
                         !.toDownload = sectionsToDownload(sections, skippedSections),
                         !.calls = r.calls + 1], 0)

\* file.arrayBuffer() and PDFDocument.load have resolved with a document of
\* sourcePages pages; line 210 filters the sections
AfterLoad(r, sourcePages) ==
  AfterSection([r EXCEPT !.pages = sourcePages,
                         !.toDownload = sectionsToDownload(r.sections, r.skipped),
                         !.calls = r.calls + 1], 0)

\* PDFDocument.create has resolved
AfterCreate(r) ==
  [r EXCEPT !.doc = << >>, !.j = 0, !.calls = r.calls + 1,
            !.pc = IF Len(r.toDownload[r.i + 1]) = 0 THEN "save" ELSE "copy"]

\* the logical index the suspended copyPages call was given
CopyIndex(r) == r.toDownload[r.i + 1][r.j + 1]

\* variant: the rotation is looked up under the position in the section
AfterCopy_rotationBySlot(r) ==
  LET indices == r.toDownload[r.i + 1]
      logicalIdx == CopyIndex(r)
      rotation == RotationOf(r.rotations, r.j)
      page == [page |-> logicalIdx, setRotation |-> rotation # 0, degrees |-> rotation]
  IN  [r EXCEPT !.doc = Append(r.doc, page), !.j = r.j + 1, !.calls = r.calls + 1,
                !.pc = IF r.j + 1 < Len(indices) THEN "copy" ELSE "save"]

\* newPdf.copyPages has resolved; setRotation is called for a non-zero angle
\* only, with rotations[logicalIdx] || 0 (index.tsx 215-221)
AfterCopy(r) ==
  LET indices == r.toDownload[r.i + 1]
      logicalIdx == CopyIndex(r)
      rotation == RotationOf(r.rotations, logicalIdx)
      page == [page |-> logicalIdx, setRotation |-> rotation # 0, degrees |-> rotation]
  IN  [r EXCEPT !.doc = Append(r.doc, page), !.j = r.j + 1, !.calls = r.calls + 1,
                !.pc = IF r.j + 1 < Len(indices) THEN "copy" ELSE "save"]

\* newPdf.save has resolved and the link named split_${i + 1}.pdf is clicked
AfterSave(r) ==
  AfterSection([r EXCEPT !.files = Append(r.files, [name |-> r.i + 1, pages |-> r.doc]),
                         !.calls = r.calls + 1],
               r.i + 1)

\* variant: the try block is inside the loop, a failure skips one section
AfterThrow_skipSection(r) ==
  IF r.pc = "load"
  THEN [r EXCEPT !.pc = "failed", !.alerts = r.alerts + 1, !.calls = r.calls + 1]
  ELSE AfterSection([r EXCEPT !.alerts = r.alerts + 1, !.calls = r.calls + 1], r.i + 1)

\* an awaited call has rejected: the catch block logs and alerts once
AfterThrow(r) ==
  [r EXCEPT !.pc = "failed", !.alerts = r.alerts + 1, !.calls = r.calls + 1]

\* the source resolves with the page count <Document> showed, if it had
\* loaded this file
SourceLoaded(sourcePages) ==
  /\ run.pc = "load"
  /\ run.shown => sourcePages = run.shownPages
  /\ run' = AfterLoad(run, sourcePages)
  /\ ExportFrame

DocCreated ==
  /\ run.pc = "create"
  /\ run' = AfterCreate(run)
  /\ ExportFrame

\* copyPages resolves for a page the source document has
PageCopied ==
  /\ run.pc = "copy"
  /\ CopyIndex(run) \in 0..(run.pages - 1)
  /\ run' = AfterCopy(run)
  /\ ExportFrame

DocSaved ==
  /\ run.pc = "save"
  /\ run' = AfterSave(run)
  /\ ExportFrame

CodecFails ==
  /\ run.pc \in InFlight
  /\ run' = AfterThrow(run)
  /\ ExportFrame

\* the awaited call of the run resolves or rejects
RunStep ==
  \/ \E sourcePages \in 1..MaxPages : SourceLoaded(sourcePages)
  \/ DocCreated
  \/ PageCopied
  \/ DocSaved
  \/ CodecFails

(* ---- the preview modal (index.tsx 313-318, 501-600) ---- *)

\* the modal is rendered when previewPosition !== null && previewContext
PreviewShown ==
  previewPosition # NoPreview /\ previewContext(file, pageOrder, previewPosition) # << >>

PreviewFrame ==
  /\ UNCHANGED <<run, run2, previewPage, file, docStatus, numPages, pageOrder, rotations, splitIndices,
                 autoSplitEnabled, autoSplitInterval, skippedSections, streak>>
  /\ before' = NoBefore

\* the eye button of a slot: setPreviewPosition(logicalPosition)
OpenPreview(position) ==
  /\ GridShown
  /\ position \in 0..(Len(pageOrder) - 1)
  /\ previewPosition' = PreviewEffect(file, pageOrder, <<position>>)
  /\ event' = [op |-> "preview", arg |-> position, how |-> "open"]
  /\ PreviewFrame

\* the backdrop or the Close button: setPreviewPosition(null)
ClosePreview ==
  /\ PreviewShown
  /\ previewPosition' = NoPreview
  /\ event' = [op |-> "preview", arg |-> 0, how |-> "close"]
  /\ PreviewFrame

\* the Previous button, disabled on slot 0
PreviewPrevious ==
  /\ PreviewShown
  /\ previewPosition[1] # 0
  /\ previewPosition' =
       IF previewPosition[1] > 0
       THEN PreviewEffect(file, pageOrder, <<previewPosition[1] - 1>>)
       ELSE previewPosition
  /\ event' = [op |-> "preview", arg |-> 0, how |-> "previous"]
  /\ PreviewFrame

\* the Next button, disabled on the last slot
PreviewNext ==
  /\ PreviewShown
  /\ previewPosition[1] # Len(pageOrder) - 1
  /\ previewPosition' =
       IF previewPosition[1] < Len(pageOrder) - 1
       THEN PreviewEffect(file, pageOrder, <<previewPosition[1] + 1>>)
       ELSE previewPosition
  /\ event' = [op |-> "preview", arg |-> 0, how |-> "next"]
  /\ PreviewFrame

(* ---- the Download button pressed during a run ---- *)

\* The button is disabled only while there is no file or no section
\* (index.tsx 491): a press while a run is suspended calls
\* generateAndDownloadSplits again, and a second run, followed in run2,
\* proceeds beside the first.
StartExportAgain ==
  /\ file # NoFile
  /\ Len(sections) # 0
  /\ run.pc \in InFlight
  /\ run2.pc \notin InFlight
  /\ run2' = CapturedRun
  /\ event' = [op |-> "export", arg |-> 0, how |-> "again"]
  /\ UNCHANGED <<run, file, docStatus, numPages, pageOrder, rotations, splitIndices,
                 autoSplitEnabled, autoSplitInterval, skippedSections, streak,
                 previewPosition, previewPage>>
  /\ before' = NoBefore

\* the awaited call of the second run resolves
SecondRunResolves(sourcePages) ==
  /\ run2.pc \in InFlight
  /\ run2.pc = "load" => (run2.shown => sourcePages = run2.shownPages)
  /\ run2.pc # "load" => sourcePages = run2.pages
  /\ run2.pc = "copy" => CopyIndex(run2) \in 0..(run2.pages - 1)
  /\ run2' = CASE run2.pc = "load" -> AfterLoad(run2, sourcePages)
                [] run2.pc = "create" -> AfterCreate(run2)
                [] run2.pc = "copy" -> AfterCopy(run2)
                [] run2.pc = "save" -> AfterSave(run2)
  /\ UNCHANGED <<run, file, docStatus, numPages, pageOrder, rotations, splitIndices,
                 autoSplitEnabled, autoSplitInterval, skippedSections, event, streak,
                 previewPosition, previewPage>>
  /\ before' = NoBefore

\* the awaited call of the second run rejects
SecondRunRejects ==
  /\ run2.pc \in InFlight
  /\ run2' = AfterThrow(run2)
  /\ UNCHANGED <<run, file, docStatus, numPages, pageOrder, rotations, splitIndices,
                 autoSplitEnabled, autoSplitInterval, skippedSections, event, streak,
                 previewPosition, previewPage>>
  /\ before' = NoBefore

(* ---- the handlers called with any argument ---- *)

\* The buttons pass the slot they belong to.  The handlers themselves take
\* any number, and the actions below call them so, while the grid is shown:
\* with a logical index that no slot holds any more, or a position outside
\* the page order.

\* duplicatePage(logicalIndex) (index.tsx 79-87), for a page of the document:
\* an index that a button of the grid holds or once held
DuplicatePageCall(logicalIndex) ==
  /\ GridShown
  /\ logicalIndex \in 0..(numPages - 1)
  /\ Len(pageOrder) < MaxLen
  /\ pageOrder' = duplicatePage(pageOrder, logicalIndex)
  /\ skippedSections' = {}
  /\ event' = [op |-> "duplicate", arg |-> logicalIndex,
               how |-> IF IndexOf(pageOrder, logicalIndex) < 0 THEN "absent" ELSE ""]
  /\ UNCHANGED <<run, file, docStatus, numPages, rotations, splitIndices,
                 autoSplitEnabled, autoSplitInterval, streak>>
  /\ before' = NoBefore
  /\ previewPosition' = PreviewEffect(file', pageOrder', previewPosition)
  /\ UNCHANGED <<run2, previewPage>>

\* deletePageAt(position, logicalIndex) (index.tsx 93-114): on a position
\* outside the order the pageOrder updater returns prev before it reaches
\* setSplitIndices; setSkippedSections runs in either case
DeletePageAtCall(position) ==
  /\ GridShown
  /\ LET next == deletePageAt(pageOrder, position)
     IN  /\ pageOrder' = next
         /\ splitIndices' = IF position < 0 \/ position >= Len(pageOrder)
                            THEN splitIndices
                            ELSE shiftSplits(splitIndices, position, next)
  /\ skippedSections' = {}
  /\ event' = [op |-> "delete", arg |-> position,
               how |-> IF position \in 0..(Len(pageOrder) - 1) THEN "" ELSE "outOfRange"]
  /\ UNCHANGED <<run, file, docStatus, numPages, rotations,
                 autoSplitEnabled, autoSplitInterval, streak>>
  /\ before' = NoBefore
  /\ previewPosition' = PreviewEffect(file', pageOrder', previewPosition)
  /\ UNCHANGED <<run2, previewPage>>

\* rotatePage(logicalIndex, direction) (index.tsx 67-74), for any page of the
\* document, held by a slot or not
RotatePageCall(logicalIndex, direction) ==
  /\ GridShown
  /\ logicalIndex \in 0..(numPages - 1)
  /\ rotations' = rotatePage(rotations, logicalIndex, direction)
  /\ event' = [op |-> "rotate", arg |-> logicalIndex, how |-> direction]
  /\ UNCHANGED <<run, file, docStatus, numPages, pageOrder, splitIndices,
                 autoSplitEnabled, autoSplitInterval, skippedSections, streak>>
  /\ before' = NoBefore
  /\ UNCHANGED <<run2, previewPosition, previewPage>>

\* the run of consecutive presses of one control that a press belongs to: it
\* remembers the split markers and the sections the run started from
NextBefore(op, arg) ==
  IF before.op = op /\ before.arg = arg /\ before.count < MaxPresses
  THEN [before EXCEPT !.count = before.count + 1]
  ELSE [op |-> op, arg |-> arg, splitIndices |-> splitIndices,
        sections |-> sections, count |-> 1]

\* toggleSplit(position) (index.tsx 119-130): the handler has no test on the
\* position
ToggleSplitCall(position) ==
  /\ GridShown
  /\ splitIndices' = toggleSplit(splitIndices, position)
  /\ skippedSections' = {}
  /\ event' = [op |-> "toggleSplit", arg |-> position,
               how |-> IF position \in 0..(Len(pageOrder) - 2) THEN "" ELSE "outOfRange"]
  /\ before' = NextBefore("toggleSplit", position)
  /\ UNCHANGED <<run2, previewPosition, previewPage>>
  /\ UNCHANGED <<run, file, docStatus, numPages, pageOrder, rotations,
                 autoSplitEnabled, autoSplitInterval, streak>>

\* the same press of the auto-split checkbox, also counting the run of
\* presses in a row it belongs to
SetAutoSplitEnabledCounted(checked) ==
  /\ AutoSplitCheckbox(checked)
  /\ before' = NextBefore("autoSplit", 0)
  /\ UNCHANGED <<run2, previewPosition, previewPage>>

(* ---- the value-keyed front-end (index_colorful.tsx) ---- *)

\* This front-end keeps file, numPages, pageOrder, rotations and
\* splitIndices as the slot-keyed one does, but a split marker is a logical
\* page index, not a slot position.  It has no auto-split controls and no
\* skip set: autoSplitEnabled, autoSplitInterval and skippedSections keep
\* their initial values in its specification.

\* handleFileChange (index_colorful.tsx 37-42)
ColorfulHandleFileChange(selected) ==
  /\ IF selected # NoFile
     THEN file' = selected /\ docStatus' = "loading"
     ELSE UNCHANGED <<file, docStatus>>
  /\ event' = [op |-> "file", arg |-> 0, how |-> ""]
  /\ UNCHANGED <<run, numPages, pageOrder, rotations, splitIndices,
                 autoSplitEnabled, autoSplitInterval, skippedSections, streak>>
  /\ before' = NoBefore
  /\ UNCHANGED <<run2, previewPosition, previewPage>>

\* onDocumentLoadSuccess (index_colorful.tsx 26-32)
ColorfulOnLoadSuccess(nextNumPages) ==
  /\ docStatus = "loading"
  /\ numPages' = nextNumPages
  /\ pageOrder' = Identity(nextNumPages)
  /\ rotations' = NoRotations
  /\ splitIndices' = {}
  /\ docStatus' = "loaded"
  /\ event' = [op |-> "load", arg |-> nextNumPages,
               how |-> IF numPages > 0 THEN "again" ELSE "first"]
  /\ UNCHANGED <<run, file, autoSplitEnabled, autoSplitInterval, skippedSections, streak>>
  /\ before' = NoBefore
  /\ UNCHANGED <<run2, previewPosition, previewPage>>

\* variant: only the first slot that holds the page is removed
FilterOut_first(prev, logicalIndex) == SpliceRemove(prev, IndexOf(prev, logicalIndex))

\* prev.filter((idx) => idx !== logicalIndex)
FilterOut(prev, logicalIndex) ==
  LET kept[k \in 0..Len(prev)] ==
        IF k = 0 THEN << >>
        ELSE IF prev[k] = logicalIndex THEN kept[k - 1]
        ELSE Append(kept[k - 1], prev[k])
  IN  kept[Len(prev)]

\* the duplicate button of a slot: duplicatePage(pageIndex)
\* (index_colorful.tsx 59-66), the splice of index.tsx with no skip set
ColorfulDuplicatePage(position) ==
  /\ GridShown
  /\ position \in 0..(Len(pageOrder) - 1)
  /\ Len(pageOrder) < MaxLen
  /\ LET logicalIndex == pageOrder[position + 1]
     IN  /\ pageOrder' = duplicatePage(pageOrder, logicalIndex)
         /\ event' = [op |-> "duplicate", arg |-> logicalIndex, how |-> ""]
  /\ UNCHANGED <<run, file, docStatus, numPages, rotations, splitIndices,
                 autoSplitEnabled, autoSplitInterval, skippedSections, streak>>
  /\ before' = NoBefore
  /\ UNCHANGED <<run2, previewPosition, previewPage>>

\* the delete button of a slot: deletePage(pageIndex) (index_colorful.tsx 71-79)
ColorfulDeletePage(position) ==
  /\ GridShown
  /\ position \in 0..(Len(pageOrder) - 1)
  /\ LET logicalIndex == pageOrder[position + 1]
     IN  /\ pageOrder' = FilterOut(pageOrder, logicalIndex)
         /\ splitIndices' = splitIndices \ {logicalIndex}
         /\ event' = [op |-> "delete", arg |-> logicalIndex,
                      how |-> IF Cardinality({k \in DOMAIN pageOrder :
                                               pageOrder[k] = logicalIndex}) < 2 THEN ""
                              ELSE IF logicalIndex \in splitIndices THEN "copiesWithMarker"
                              ELSE "copies"]
  /\ UNCHANGED <<run, file, docStatus, numPages, rotations,
                 autoSplitEnabled, autoSplitInterval, skippedSections, streak>>
  /\ before' = NoBefore
  /\ UNCHANGED <<run2, previewPosition, previewPage>>

\* the split button of a slot but the last: toggleSplit(pageIndex)
\* (index_colorful.tsx 84-94, 341-344)
ColorfulToggleSplit(position) ==
  /\ GridShown
  /\ position \in 0..(Len(pageOrder) - 2)
  /\ LET logicalIndex == pageOrder[position + 1]
     IN  /\ splitIndices' = toggleSplit(splitIndices, logicalIndex)
         /\ event' = [op |-> "toggleSplit", arg |-> logicalIndex, how |-> ""]
  /\ UNCHANGED <<run, file, docStatus, numPages, pageOrder, rotations,
                 autoSplitEnabled, autoSplitInterval, skippedSections, streak>>
  /\ before' = NoBefore
  /\ UNCHANGED <<run2, previewPosition, previewPage>>

\* the sections generateAndDownloadSplits computes (index_colorful.tsx
\* 108-119): a marker ends a section at the first slot that holds its page
RECURSIVE ColorfulSectionsFrom(_, _, _)
ColorfulSectionsFrom(order, sortedIndices, start) ==
  IF sortedIndices = << >> THEN <<Slice(order, start, Len(order))>>
  ELSE LET splitAfter == Head(sortedIndices)
           end == IndexOf(order, splitAfter)
       IN  IF end >= start
           THEN <<Slice(order, start, end + 1)>>
                \o ColorfulSectionsFrom(order, Tail(sortedIndices), end + 1)
           ELSE ColorfulSectionsFrom(order, Tail(sortedIndices), start)

ColorfulSections(order, splits) == ColorfulSectionsFrom(order, SortAsc(splits), 0)

\* The Download button is rendered while a file is set and numPages > 0, and
\* is never disabled (index_colorful.tsx 195, 367, 391-393).  The handler
\* closes over file, pageOrder, splitIndices and rotations of the render in
\* which it was pressed; the sections it computes after the source has
\* loaded are those of the captured order and markers.  One run at a time is
\* followed.  The loop over the sections (index_colorful.tsx 121-141) is the
\* one of index.tsx 211-231, taken by DocCreated, PageCopied and DocSaved
\* with no section skipped.
ColorfulStartExport ==
  /\ file # NoFile
  /\ numPages > 0
  /\ run.pc \notin InFlight
  /\ run' = [NoRun EXCEPT !.pc = "load", !.file = file,
                          !.shown = (docStatus = "loaded"),
                          !.shownPages = IF docStatus = "loaded" THEN numPages ELSE 0,
                          !.sections = ColorfulSections(pageOrder, splitIndices),
                          !.rotations = rotations]
  /\ event' = [op |-> "export", arg |-> 0,
               how |-> IF Len(pageOrder) = 0 THEN "emptyOrder" ELSE ""]
  /\ UNCHANGED <<file, docStatus, numPages, pageOrder, rotations, splitIndices,
                 autoSplitEnabled, autoSplitInterval, skippedSections, streak>>
  /\ before' = NoBefore
  /\ UNCHANGED <<run2, previewPosition, previewPage>>

\* the preview modal of the value-keyed front-end (index_colorful.tsx
\* 297-301, 410-490); no handler and no effect of this front-end other than
\* the four below sets previewPage

ColorfulPreviewFrame ==
  /\ UNCHANGED <<run, run2, previewPosition, file, docStatus, numPages, pageOrder,
                 rotations, splitIndices, autoSplitEnabled, autoSplitInterval,
                 skippedSections, streak>>
  /\ before' = NoBefore

\* the eye button of a slot: setPreviewPage(pageIndex)
ColorfulOpenPreview(position) ==
  /\ GridShown
  /\ position \in 0..(Len(pageOrder) - 1)
  /\ previewPage' = <<pageOrder[position + 1]>>
  /\ event' = [op |-> "preview", arg |-> pageOrder[position + 1], how |-> "open"]
  /\ ColorfulPreviewFrame

\* the backdrop or the Close button: setPreviewPage(null)
ColorfulClosePreview ==
  /\ previewPage # NoPreview
  /\ previewPage' = NoPreview
  /\ event' = [op |-> "preview", arg |-> 0, how |-> "close"]
  /\ ColorfulPreviewFrame

\* the Previous button, disabled when the previewed page is in slot 0
ColorfulPreviewPrevious ==
  /\ previewPage # NoPreview
  /\ LET currentPos == IndexOf(pageOrder, previewPage[1])
     IN  /\ currentPos # 0
         /\ previewPage' = IF currentPos > 0 THEN <<pageOrder[currentPos]>>
                           ELSE previewPage
  /\ event' = [op |-> "preview", arg |-> 0, how |-> "previous"]
  /\ ColorfulPreviewFrame

\* the Next button, disabled when the previewed page is in the last slot
ColorfulPreviewNext ==
  /\ previewPage # NoPreview
  /\ LET currentPos == IndexOf(pageOrder, previewPage[1])
     IN  /\ currentPos # Len(pageOrder) - 1
         /\ previewPage' = IF currentPos < Len(pageOrder) - 1
                           THEN <<pageOrder[currentPos + 2]>>
                           ELSE previewPage
  /\ event' = [op |-> "preview", arg |-> 0, how |-> "next"]
  /\ ColorfulPreviewFrame

(* ---- deletePageAt with its updater evaluated more than once ---- *)

\* setSplitIndices is called inside the updater passed to setPageOrder
\* (index.tsx 94-112).  React may call an updater function more than once
\* for one update (it does so twice in Strict Mode); every evaluation gets
\* the same prev and returns the same next, and every evaluation enqueues
\* the marker updater again, so the shift is applied once per evaluation.
RECURSIVE ShiftTimes(_, _, _, _)
ShiftTimes(prevSplits, position, next, evaluations) ==
  IF evaluations = 0 THEN prevSplits
  ELSE ShiftTimes(shiftSplits(prevSplits, position, next), position, next,
                  evaluations - 1)

\* the delete button of a slot, with the number of times React evaluates
\* the page order updater
DeletePageAtEvaluated(position, evaluations) ==
  /\ GridShown
  /\ position \in 0..(Len(pageOrder) - 1)
  /\ LET next == deletePageAt(pageOrder, position)
     IN  /\ pageOrder' = next
         /\ splitIndices' = ShiftTimes(splitIndices, position, next, evaluations)
  /\ skippedSections' = {}
  /\ event' = [op |-> "delete", arg |-> position,
               how |-> IF evaluations > 1 THEN "updaterRepeated" ELSE ""]
  /\ UNCHANGED <<run, file, docStatus, numPages, rotations,
                 autoSplitEnabled, autoSplitInterval, streak>>
  /\ before' = NoBefore
  /\ previewPosition' = PreviewEffect(file', pageOrder', previewPosition)
  /\ UNCHANGED <<run2, previewPage>>

(* ---- specifications ---- *)

\* user events on the page order, the split markers and the skip set, in
\* manual sectioning
Next ==
  \/ \E selected \in {NoFile, PickedFile} : HandleFileChange(selected)
  \/ \E nextNumPages \in 1..MaxPages : OnLoadSuccess(nextNumPages)
  \/ OnLoadError
  \/ \E position \in 0..(MaxLen - 1) : DuplicatePage(position)
  \/ \E position \in 0..(MaxLen - 1) : DeletePageAt(position)
  \/ \E position \in 0..(MaxLen - 1) : ToggleSplit(position)
  \/ \E idx \in 0..(MaxLen - 1) : ToggleSkip(idx)

Spec == Init /\ [][Next]_vars

\* the same events together with the auto-split controls: every event that
\* changes the computed sections or the skip set
NextSectioning ==
  \/ Next
  \/ \E checked \in BOOLEAN : SetAutoSplitEnabled(checked)
  \/ \E typed \in TypedValues : SetAutoSplitInterval(typed)

SpecSectioning == Init /\ [][NextSectioning]_vars

\* user events on the rotation table, with the loads that clear it and the
\* deletions that decide which logical pages still have rotate buttons
NextRotate ==
  \/ \E selected \in {NoFile, PickedFile} : HandleFileChange(selected)
  \/ \E nextNumPages \in 1..MaxPages : OnLoadSuccess(nextNumPages)
  \/ OnLoadError
  \/ \E position \in 0..(MaxLen - 1), direction \in Directions : RotatePageCounted(position, direction)
  \/ \E position \in 0..(MaxLen - 1) : DeletePageAt(position)

SpecRotate == Init /\ [][NextRotate]_vars

\* user events that fill the four structures a document load replaces
NextReload ==
  \/ \E selected \in {NoFile, PickedFile} : HandleFileChange(selected)
  \/ \E nextNumPages \in 1..MaxPages : OnLoadSuccess(nextNumPages)
  \/ OnLoadError
  \/ \E position \in 0..(MaxLen - 1), direction \in Directions : RotatePage(position, direction)
  \/ \E position \in 0..(MaxLen - 1) : DeletePageAt(position)
  \/ \E position \in 0..(MaxLen - 1) : ToggleSplit(position)
  \/ \E idx \in 0..(MaxLen - 1) : ToggleSkip(idx)

SpecReload == Init /\ [][NextReload]_vars

\* buildSections as a function of its inputs: any page order over the pages
\* of a loaded document, any set of marker positions, either mode and any
\* positive interval, those below 1 (which the interval input never stores)
\* included
InitSections ==
  /\ file = PickedFile
  /\ docStatus = "loaded"
  /\ numPages = MaxPages
  /\ pageOrder \in UNION {[1..len -> 0..(MaxPages - 1)] : len \in 0..MaxLen}
  /\ rotations = NoRotations
  /\ splitIndices \in SUBSET (0..MaxLen)
  /\ autoSplitEnabled \in BOOLEAN
  /\ autoSplitInterval \in 1..(MaxInterval * Scale)
  /\ skippedSections = {}
  /\ run = NoRun
  /\ run2 = NoRun
  /\ previewPosition = NoPreview
  /\ previewPage = NoPreview
  /\ event = NoEvent
  /\ streak = NoStreak
  /\ before = NoBefore

\* the controls that make the next render compute the sections in the other
\* mode or with another interval
NextSections ==
  \/ \E checked \in BOOLEAN : SetAutoSplitEnabled(checked)
  \/ \E typed \in TypedValues : SetAutoSplitInterval(typed)

SpecSections == InitSections /\ [][NextSections]_vars

\* export runs, with the user events that shape the sections and the skip
\* set; these events also arrive while a run is suspended
NextExport ==
  \/ \E selected \in {NoFile, PickedFile} : HandleFileChange(selected)
  \/ \E nextNumPages \in 1..MaxPages : OnLoadSuccess(nextNumPages)
  \/ OnLoadError
  \/ \E position \in 0..(MaxLen - 1) : ToggleSplit(position)
  \/ \E idx \in 0..(MaxLen - 1) : ToggleSkip(idx)
  \/ StartExport
  \/ \E sourcePages \in 1..MaxPages : SourceLoaded(sourcePages)
  \/ DocCreated
  \/ PageCopied
  \/ DocSaved
  \/ CodecFails

SpecExport == Init /\ [][NextExport]_vars

\* duplicatePage called with any logical index of the document, on page
\* orders that have lost slots
NextDuplicateCalls ==
  \/ \E selected \in {NoFile, PickedFile} : HandleFileChange(selected)
  \/ \E nextNumPages \in 1..MaxPages : OnLoadSuccess(nextNumPages)
  \/ OnLoadError
  \/ \E position \in 0..(MaxLen - 1) : DeletePageAt(position)
  \/ \E logicalIndex \in 0..(MaxPages - 1) : DuplicatePageCall(logicalIndex)

SpecDuplicateCalls == Init /\ [][NextDuplicateCalls]_vars

\* deletePageAt called with any position, in the order or next to it, on
\* page orders that carry split markers
NextDeleteCalls ==
  \/ \E selected \in {NoFile, PickedFile} : HandleFileChange(selected)
  \/ \E nextNumPages \in 1..MaxPages : OnLoadSuccess(nextNumPages)
  \/ OnLoadError
  \/ \E position \in 0..(MaxLen - 1) : DuplicatePage(position)
  \/ \E position \in 0..(MaxLen - 1) : ToggleSplit(position)
  \/ \E position \in (0 - 1)..MaxLen : DeletePageAtCall(position)

SpecDeleteCalls == Init /\ [][NextDeleteCalls]_vars

\* toggleSplit called with any slot position, of the order or beyond its
\* last split button; the presses of one position in a row are counted
NextToggleCalls ==
  \/ \E selected \in {NoFile, PickedFile} : HandleFileChange(selected)
  \/ \E nextNumPages \in 1..MaxPages : OnLoadSuccess(nextNumPages)
  \/ OnLoadError
  \/ \E position \in 0..MaxLen : ToggleSplitCall(position)

SpecToggleCalls == Init /\ [][NextToggleCalls]_vars

\* switching between manual and interval sectioning, on page orders and
\* split markers shaped by the page buttons; the presses of the checkbox in
\* a row are counted
NextModes ==
  \/ \E selected \in {NoFile, PickedFile} : HandleFileChange(selected)
  \/ \E nextNumPages \in 1..MaxPages : OnLoadSuccess(nextNumPages)
  \/ OnLoadError
  \/ \E position \in 0..(MaxLen - 1) : DeletePageAt(position)
  \/ \E position \in 0..(MaxLen - 1) : ToggleSplit(position)
  \/ \E checked \in BOOLEAN : SetAutoSplitEnabledCounted(checked)
  \/ \E typed \in TypedValues : SetAutoSplitInterval(typed)

SpecModes == Init /\ [][NextModes]_vars

\* the value-keyed front-end: loads, deletions, split markers and export runs
NextColorful ==
  \/ \E selected \in {NoFile, PickedFile} : ColorfulHandleFileChange(selected)
  \/ \E nextNumPages \in 1..MaxPages : ColorfulOnLoadSuccess(nextNumPages)
  \/ OnLoadError
  \/ \E position \in 0..(MaxLen - 1) : ColorfulDeletePage(position)
  \/ \E position \in 0..(MaxLen - 1) : ColorfulToggleSplit(position)
  \/ ColorfulStartExport
  \/ \E sourcePages \in 1..MaxPages : SourceLoaded(sourcePages)
  \/ DocCreated
  \/ PageCopied
  \/ DocSaved
  \/ CodecFails

SpecColorful == Init /\ [][NextColorful]_vars

\* the first export run of a session, over page orders with duplicated slots
\* and rotated pages: the user loads a document, rotates up to MaxRotated
\* pages, duplicates slots, splits after the first slot or not, skips
\* sections, then presses Download.  The
\* events that arrive during and after a run are those of NextExport.
NextExportPages ==
  \/ \E selected \in {NoFile, PickedFile} : run.pc = "idle" /\ HandleFileChange(selected)
  \/ \E nextNumPages \in 1..MaxPages : run.pc = "idle" /\ OnLoadSuccess(nextNumPages)
  \/ run.pc = "idle" /\ OnLoadError
  \/ \E position \in 0..(MaxLen - 1), direction \in Directions :
       /\ run.pc = "idle"
       /\ position < Len(pageOrder)
       /\ Cardinality(DOMAIN rotations \cup {pageOrder[position + 1]}) <= MaxRotated
       /\ RotatePage(position, direction)
  \/ \E position \in 0..(MaxLen - 1) : run.pc = "idle" /\ DuplicatePage(position)
  \/ run.pc = "idle" /\ ToggleSplit(0)
  \/ \E idx \in 0..1 : run.pc = "idle" /\ ToggleSkip(idx)
  \/ StartExport
  \/ \E sourcePages \in 1..MaxPages : SourceLoaded(sourcePages)
  \/ DocCreated
  \/ PageCopied
  \/ DocSaved
  \/ CodecFails

SpecExportPages == Init /\ [][NextExportPages]_vars

\* export runs with the Download button pressed again while a run is
\* suspended
NextOverlap ==
  \/ \E selected \in {NoFile, PickedFile} : HandleFileChange(selected)
  \/ \E nextNumPages \in 1..MaxPages : OnLoadSuccess(nextNumPages)
  \/ OnLoadError
  \/ StartExport
  \/ \E sourcePages \in 1..MaxPages : SourceLoaded(sourcePages)
  \/ DocCreated
  \/ PageCopied
  \/ DocSaved
  \/ CodecFails
  \/ StartExportAgain
  \/ \E sourcePages \in 1..MaxPages : SecondRunResolves(sourcePages)
  \/ SecondRunRejects

SpecOverlap == Init /\ [][NextOverlap]_vars

\* the preview modal over page orders that grow and shrink; the page buttons
\* stay reachable from the keyboard while the modal is open
NextPreview ==
  \/ \E selected \in {NoFile, PickedFile} : HandleFileChange(selected)
  \/ \E nextNumPages \in 1..MaxPages : OnLoadSuccess(nextNumPages)
  \/ OnLoadError
  \/ \E position \in 0..(MaxLen - 1) : DuplicatePage(position)
  \/ \E position \in 0..(MaxLen - 1) : DeletePageAt(position)
  \/ \E position \in 0..(MaxLen - 1) : OpenPreview(position)
  \/ ClosePreview
  \/ PreviewPrevious
  \/ PreviewNext

SpecPreview == Init /\ [][NextPreview]_vars

\* the value-keyed front-end: page orders with copies, deletions by logical
\* index and split markers
NextColorfulPages ==
  \/ \E selected \in {NoFile, PickedFile} : ColorfulHandleFileChange(selected)
  \/ \E nextNumPages \in 1..MaxPages : ColorfulOnLoadSuccess(nextNumPages)
  \/ OnLoadError
  \/ \E position \in 0..(MaxLen - 1) : ColorfulDuplicatePage(position)
  \/ \E position \in 0..(MaxLen - 1) : ColorfulDeletePage(position)
  \/ \E position \in 0..(MaxLen - 1) : ColorfulToggleSplit(position)

SpecColorfulPages == Init /\ [][NextColorfulPages]_vars

\* export runs whose awaited codec calls all return or fail: a suspended
\* run is eventually resumed, whatever the user does meanwhile
NextExportLive ==
  \/ \E selected \in {NoFile, PickedFile} : HandleFileChange(selected)
  \/ \E nextNumPages \in 1..MaxPages : OnLoadSuccess(nextNumPages)
  \/ OnLoadError
  \/ \E position \in 0..(MaxLen - 1) : ToggleSplit(position)
  \/ StartExport
  \/ RunStep

SpecExportLive == Init /\ [][NextExportLive]_vars /\ WF_vars(RunStep)

\* rotatePage called for any page of the document, on page orders that have
\* lost slots, with or without a split after the first slot and skipped
\* sections; up to MaxRotated pages are rotated
NextRotateCalls ==
  \/ \E selected \in {NoFile, PickedFile} : HandleFileChange(selected)
  \/ \E nextNumPages \in 1..MaxPages : OnLoadSuccess(nextNumPages)
  \/ OnLoadError
  \/ \E position \in 0..(MaxLen - 1) : DeletePageAt(position)
  \/ ToggleSplit(0)
  \/ \E idx \in 0..1 : ToggleSkip(idx)
  \/ \E logicalIndex \in 0..(MaxPages - 1), direction \in Directions :
       /\ Cardinality(DOMAIN rotations \cup {logicalIndex}) <= MaxRotated
       /\ RotatePageCall(logicalIndex, direction)

SpecRotateCalls == Init /\ [][NextRotateCalls]_vars

\* the value-keyed front-end: the preview modal over page orders that grow
\* and shrink; the page buttons stay reachable from the keyboard while the
\* modal is open
NextColorfulPreview ==
  \/ \E selected \in {NoFile, PickedFile} : ColorfulHandleFileChange(selected)
  \/ \E nextNumPages \in 1..MaxPages : ColorfulOnLoadSuccess(nextNumPages)
  \/ OnLoadError
  \/ \E position \in 0..(MaxLen - 1) : ColorfulDuplicatePage(position)
  \/ \E position \in 0..(MaxLen - 1) : ColorfulDeletePage(position)
  \/ \E position \in 0..(MaxLen - 1) : ColorfulOpenPreview(position)
  \/ ColorfulClosePreview
  \/ ColorfulPreviewPrevious
  \/ ColorfulPreviewNext

SpecColorfulPreview == Init /\ [][NextColorfulPreview]_vars

\* the first export run of a session with the page buttons, the split
\* button and the skip toggle of the first slot and section pressed while
\* the run is suspended, one page being rotated; before the press the user
\* splits after the first slot or not and skips sections
NextExportEdits ==
  \/ \E selected \in {NoFile, PickedFile} : run.pc = "idle" /\ HandleFileChange(selected)
  \/ \E nextNumPages \in 1..MaxPages : run.pc = "idle" /\ OnLoadSuccess(nextNumPages)
  \/ run.pc = "idle" /\ OnLoadError
  \/ run.pc \in InFlight \cup {"idle"} /\ ToggleSplit(0)
  \/ \E idx \in 0..1 : run.pc \in InFlight \cup {"idle"} /\ ToggleSkip(idx)
  \/ \E direction \in Directions :
       /\ run.pc \in InFlight
       /\ Len(pageOrder) > 0
       /\ DOMAIN rotations \subseteq {pageOrder[1]}
       /\ RotatePage(0, direction)
  \/ run.pc \in InFlight /\ DuplicatePage(0)
  \/ run.pc \in InFlight /\ DeletePageAt(0)
  \/ run.pc = "idle" /\ StartExport
  \/ RunStep

SpecExportEdits == Init /\ [][NextExportEdits]_vars

\* the interval field, with anything typed into it, on page orders of every
\* length and in both sectioning modes
NextInterval ==
  \/ \E selected \in {NoFile, PickedFile} : HandleFileChange(selected)
  \/ \E nextNumPages \in 1..MaxPages : OnLoadSuccess(nextNumPages)
  \/ OnLoadError
  \/ \E position \in 0..(MaxLen - 1) : DuplicatePage(position)
  \/ \E position \in 0..(MaxLen - 1) : DeletePageAt(position)
  \/ \E checked \in BOOLEAN : SetAutoSplitEnabled(checked)
  \/ \E typed \in TypedValues : SetAutoSplitIntervalTyped(typed)

SpecInterval == Init /\ [][NextInterval]_vars

\* deletions on page orders that carry split markers, the page order
\* updater being evaluated once or twice
NextDeleteEvaluations ==
  \/ \E selected \in {NoFile, PickedFile} : HandleFileChange(selected)
  \/ \E nextNumPages \in 1..MaxPages : OnLoadSuccess(nextNumPages)
  \/ OnLoadError
  \/ \E position \in 0..(MaxLen - 1) : DuplicatePage(position)
  \/ \E position \in 0..(MaxLen - 1) : ToggleSplit(position)
  \/ \E position \in 0..(MaxLen - 1), evaluations \in 1..MaxEvaluations :
       DeletePageAtEvaluated(position, evaluations)

SpecDeleteEvaluations == Init /\ [][NextDeleteEvaluations]_vars

(* ---- properties ---- *)

\* C1: after any sequence of load, rotate, duplicate, delete and toggleSplit
\* events every element of Page Order is a logical index in [0, numPages).
C1_OrderIntegrity ==
  \A k \in 1..Len(pageOrder) : pageOrder[k] \in 0..(numPages - 1)

\* a duplicate has acted on an order that also lost a slot
C1_Witness ==
  /\ event.op = "duplicate"
  /\ Len(pageOrder) = numPages
  /\ \E k \in 1..(Len(pageOrder) - 1) : pageOrder[k] = pageOrder[k + 1]

\* C2: every Split Marker position p satisfies 0 <= p <= len(Page Order) - 2
\* in every reachable state.
C2_MarkersBeforeLastSlot ==
  \A p \in splitIndices : 0 <= p /\ p <= Len(pageOrder) - 2

\* C4: deleting slot p keeps every marker m < p, drops a marker m = p and
\* turns every marker m > p into m - 1; no other marker is added or removed.
C4_DeleteShiftsMarkers ==
  [][event'.op = "delete" =>
       LET p == event'.arg
       IN  splitIndices' = {m \in splitIndices : m < p}
                           \cup {m - 1 : m \in {q \in splitIndices : q > p}}]_vars

\* after deleting slot p a marker sits below p and another at p: the second
\* can only be the former marker p + 1, shifted down
C4_Witness ==
  /\ event.op = "delete"
  /\ event.arg \in splitIndices
  /\ \E m \in splitIndices : m < event.arg

\* C5: every index in the Skip Set is smaller than the number of sections
\* computed from Page Order, Split Markers and the auto-split mode/interval.
C5_SkipsWithinSections ==
  \A idx \in skippedSections : idx < Len(sections)

\* the last of several sections is skipped
C5_Witness ==
  /\ event.op = "skip"
  /\ Len(sections) >= 3
  /\ (Len(sections) - 1) \in skippedSections

\* C10: duplicate(x) with x in Page Order inserts one slot holding x right
\* after the first slot holding x; the length grows by one and every other
\* slot keeps its value and relative order.
C10_DuplicateInsertsAfterFirst ==
  [][(event'.op = "duplicate" /\ \E k \in 1..Len(pageOrder) : pageOrder[k] = event'.arg) =>
       LET x == event'.arg
           first == CHOOSE k \in 1..Len(pageOrder) :
                      pageOrder[k] = x /\ \A j \in 1..(k - 1) : pageOrder[j] # x
       IN  /\ Len(pageOrder') = Len(pageOrder) + 1
           /\ pageOrder'[first + 1] = x
           /\ \A k \in 1..first : pageOrder'[k] = pageOrder[k]
           /\ \A k \in (first + 1)..Len(pageOrder) : pageOrder'[k + 1] = pageOrder[k]]_vars

\* a page that is not the last one has been duplicated
C10_Witness ==
  /\ event.op = "duplicate"
  /\ Len(pageOrder) >= 3
  /\ pageOrder[1] = event.arg
  /\ pageOrder[2] = event.arg
  /\ pageOrder[3] # event.arg

\* C8: every value stored in the Rotation Table is one of 0, 90, 180, 270
\* after any sequence of left and right rotations.
C8_RotationValues ==
  \A k \in DOMAIN rotations : rotations[k] \in {0, 90, 180, 270}

\* a left rotation from 0 has wrapped around to 270
C8_Witness ==
  /\ event.op = "rotate"
  /\ event.how = "left"
  /\ streak.start = 0
  /\ streak.count = 1
  /\ RotationOf(rotations, event.arg) = 270

\* C9: after k rotations of one logical page in one direction its rotation is
\* the one that (k mod 4) rotations produce; four rotations restore it.
C9_RotationPeriodFour ==
  streak.count > 0 =>
    /\ RotationOf(rotations, streak.page)
         = RotateTimes(streak.start, streak.dir, streak.count % 4)
    /\ (streak.count = 4 => RotationOf(rotations, streak.page) = streak.start)

\* a page has been rotated more than a full turn in one direction
C9_Witness ==
  /\ event.op = "rotate"
  /\ streak.count = 5
  /\ streak.start = 90

\* C7: when a document with n pages has finished loading, whatever the state
\* before, Page Order is the identity sequence 0..n-1 and the Rotation Table,
\* the Split Markers and the Skip Set are empty.
C7_LoadResets ==
  event.op = "load" =>
    /\ numPages = event.arg
    /\ Len(pageOrder) = numPages
    /\ \A k \in 1..Len(pageOrder) : pageOrder[k] = k - 1
    /\ DOMAIN rotations = {}
    /\ splitIndices = {}
    /\ skippedSections = {}

\* a second document has replaced an earlier one
C7_Witness ==
  /\ event.op = "load"
  /\ event.how = "again"
  /\ numPages = 2

\* the sections of a run that are not skipped, in order, found by index
KeptSections(r) ==
  LET keptIdx == SortAsc({k \in 0..(Len(r.sections) - 1) : k \notin r.skipped})
  IN  [n \in 1..Len(keptIdx) |-> r.sections[keptIdx[n] + 1]]

\* the logical indices of the pages of an emitted document
PagesOf(emitted) == [n \in 1..Len(emitted.pages) |-> emitted.pages[n].page]

\* C6: for sections S1..Sn and skip set K a completed export has emitted
\* exactly n - |K| files; the i-th file is named split_i.pdf and holds the
\* pages of the i-th section not in K, in order.  While the run is under way
\* the files emitted so far are the first of these.
C6_ExportNumbering ==
  /\ Len(run.files) <= Len(KeptSections(run))
  /\ \A n \in 1..Len(run.files) :
       /\ run.files[n].name = n
       /\ PagesOf(run.files[n]) = KeptSections(run)[n]
  /\ run.pc = "done" =>
       Len(run.files) = Len(run.sections) - Cardinality(run.skipped)

\* the first of three sections was skipped: files 1 and 2 hold sections 2 and 3
C6_Witness ==
  /\ run.pc = "done"
  /\ Len(run.sections) = 3
  /\ run.skipped = {0}
  /\ Len(run.files) = 2
  /\ run.files[2].name = 2
  /\ PagesOf(run.files[2]) = run.sections[3]

\* the sections laid end to end
RECURSIVE Concat(_)
Concat(secs) == IF secs = << >> THEN << >> ELSE Head(secs) \o Concat(Tail(secs))

\* C3: for any non-empty Page Order and any marker set or positive interval
\* the sections of buildSections, concatenated in order, are Page Order
\* exactly: no slot is missing, repeated or out of order.
C3_SectionsCoverOrder ==
  Len(pageOrder) > 0 => Concat(sections) = pageOrder

\* manual sectioning of an unsorted order at two markers
C3_Witness ==
  /\ event.op = "autoSplit"
  /\ ~autoSplitEnabled
  /\ pageOrder = <<2, 0, 1, 0>>
  /\ splitIndices = {0, 2}
  /\ sections = <<<<2>>, <<0, 1>>, <<0>>>>

\* C11: duplicate(x) with x absent from Page Order is a no-op: Page Order is
\* unchanged.
C11_DuplicateAbsentNoOp ==
  [][(event'.op = "duplicate" /\ \A k \in 1..Len(pageOrder) : pageOrder[k] # event'.arg)
       => pageOrder' = pageOrder]_vars

\* C12: deleteBySlot(p) with 0 <= p < len(Page Order) removes exactly the
\* slot at position p: the length drops by one, every other slot keeps its
\* value and relative order, and other occurrences of the same logical index
\* remain.
C12_DeleteRemovesOneSlot ==
  [][(event'.op = "delete" /\ event'.arg \in 0..(Len(pageOrder) - 1)) =>
       LET p == event'.arg
       IN  /\ Len(pageOrder') = Len(pageOrder) - 1
           /\ \A k \in 1..p : pageOrder'[k] = pageOrder[k]
           /\ \A k \in (p + 1)..Len(pageOrder') : pageOrder'[k] = pageOrder[k + 1]]_vars

\* slot 1 of a three-slot order over two pages has been deleted: the page it
\* held is still in the order
C12_Witness ==
  /\ event.op = "delete"
  /\ event.arg = 1
  /\ numPages = 2
  /\ pageOrder = <<0, 1>>

\* C13: deleteBySlot(p) with p < 0 or p >= len(Page Order) is a no-op: Page
\* Order and Split Markers are unchanged.
C13_DeleteOutOfRangeNoOp ==
  [][(event'.op = "delete" /\ event'.arg \notin 0..(Len(pageOrder) - 1)) =>
       /\ pageOrder' = pageOrder
       /\ splitIndices' = splitIndices]_vars

\* position -1 was handed to deletePageAt on an order with a split marker
C13_Witness ==
  /\ event.op = "delete"
  /\ event.how = "outOfRange"
  /\ event.arg < 0
  /\ Len(pageOrder) >= 2
  /\ splitIndices # {}

\* C14: toggleSplit(p) with p outside [0, len(Page Order) - 2] is rejected:
\* the Split Marker set is unchanged.
C14_ToggleOutOfRangeRejected ==
  [][(event'.op = "toggleSplit" /\ event'.arg \notin 0..(Len(pageOrder) - 2))
       => splitIndices' = splitIndices]_vars

\* C15: toggleSplit(p) with p in range adds p to Split Markers if absent and
\* removes it if present, changing no other marker; two consecutive
\* toggleSplit(p) calls restore the original marker set.
C15_ToggleSplitInvolution ==
  [][(event'.op = "toggleSplit" /\ event'.arg \in 0..(Len(pageOrder) - 2)) =>
       LET p == event'.arg
       IN  /\ p \notin splitIndices => splitIndices' = splitIndices \cup {p}
           /\ p \in splitIndices => splitIndices' = splitIndices \ {p}
           /\ (before'.op = "toggleSplit" /\ before'.count = 2)
                => splitIndices' = before'.splitIndices]_vars

\* marker 1 of a three-slot order was removed and set again, next to marker 0
C15_Witness ==
  /\ event.op = "toggleSplit"
  /\ before.op = "toggleSplit"
  /\ before.arg = 1
  /\ before.count = 2
  /\ Len(pageOrder) = 3
  /\ splitIndices = {0, 1}

\* the slot at which the k-th of the sections ends, counting their lengths
SectionEnd(secs, k) ==
  LET total[n \in 0..k] == IF n = 0 THEN 0 ELSE total[n - 1] + Len(secs[n])
  IN  total[k] - 1

\* the k-th smallest element of a set of numbers
KthSmallest(S, k) == CHOOSE m \in S : Cardinality({x \in S : x < m}) = k - 1

\* C16: in manual mode, for a non-empty Page Order of length L and a marker
\* set M within [0, L-2], there are exactly |M| + 1 sections, the k-th ending
\* at the k-th smallest marker and the last at slot L-1, each holding the
\* slots from the end of the one before; 5 pages with markers {1,3} give
\* [[0,1],[2,3],[4]].
C16_ManualSectionEnds ==
  /\ (~autoSplitEnabled /\ Len(pageOrder) > 0
        /\ splitIndices \subseteq 0..(Len(pageOrder) - 2)) =>
       \A secs \in {sections} :
         /\ Len(secs) = Cardinality(splitIndices) + 1
         /\ \A k \in 1..Cardinality(splitIndices) :
              SectionEnd(secs, k) = KthSmallest(splitIndices, k)
         /\ SectionEnd(secs, Len(secs)) = Len(pageOrder) - 1
         /\ \A k \in 1..Len(secs) :
              secs[k] = SubSeq(pageOrder, SectionEnd(secs, k - 1) + 2,
                               SectionEnd(secs, k) + 1)
  /\ buildSections(<<0, 1, 2, 3, 4>>, FALSE, Scale, {1, 3})
       = <<<<0, 1>>, <<2, 3>>, <<4>>>>

\* a four-slot order with a repeated page, cut after slots 0 and 2
C16_Witness ==
  /\ event.op = "autoSplit"
  /\ ~autoSplitEnabled
  /\ pageOrder = <<1, 0, 2, 1>>
  /\ splitIndices = {0, 2}
  /\ sections = <<<<1>>, <<0, 2>>, <<1>>>>

\* C17: in interval mode with an integer n >= 1 and a Page Order of length L
\* there are ceil(L/n) sections; every section but the last has exactly n
\* slots and the last has between 1 and n.
C17_IntervalSectionSizes ==
  (autoSplitEnabled /\ autoSplitInterval % Scale = 0) =>
    LET n == autoSplitInterval \div Scale
        L == Len(pageOrder)
    IN  \A secs \in {sections} :
          /\ Len(secs) = (L + n - 1) \div n
          /\ \A k \in 1..(Len(secs) - 1) : Len(secs[k]) = n
          /\ Len(secs) > 0 => Len(secs[Len(secs)]) \in 1..n

\* three slots in chunks of two: the last chunk is short
C17_Witness ==
  /\ event.op = "interval"
  /\ autoSplitEnabled
  /\ autoSplitInterval = 2 * Scale
  /\ pageOrder = <<2, 0, 1>>
  /\ sections = <<<<2, 0>>, <<1>>>>

\* C18: switching to interval mode leaves the stored Split Markers unchanged
\* and the sections computed in that mode are the same for any marker set;
\* switching back to manual mode with no edit in between gives the sections
\* there were before the switch.
C18_ModeSwitchKeepsMarkers ==
  [][event'.op = "autoSplit" =>
       /\ splitIndices' = splitIndices
       /\ autoSplitEnabled' =>
            \A secs \in {sections'}, markers \in SUBSET (0..MaxLen) :
              buildSections(pageOrder', autoSplitEnabled', autoSplitInterval', markers) = secs
       /\ (before'.count = 2 /\ ~autoSplitEnabled') =>
            /\ splitIndices' = before'.splitIndices
            /\ sections' = before'.sections]_vars

\* from two manual sections to one interval section and back
C18_Witness ==
  /\ event.op = "autoSplit"
  /\ ~autoSplitEnabled
  /\ before.op = "autoSplit"
  /\ before.count = 2
  /\ autoSplitInterval = 2 * Scale
  /\ pageOrder = <<0, 2>>
  /\ splitIndices = {0}
  /\ sections = <<<<0>>, <<2>>>>

\* C19: right after every duplicate, in-range delete, toggleSplit, auto-split
\* mode switch, interval change or document load the Skip Set is empty; and
\* every step that changes the computed section list leaves it empty.  The
\* sections are computed from the page order, the markers, the mode and the
\* interval alone, so a step that changes them changes one of these four.
C19_ResectioningClearsSkips ==
  [][/\ event'.op \in {"duplicate", "delete", "toggleSplit", "autoSplit", "interval", "load"}
          => skippedSections' = {}
     /\ <<pageOrder, splitIndices, autoSplitEnabled, autoSplitInterval>>'
          # <<pageOrder, splitIndices, autoSplitEnabled, autoSplitInterval>>
          => skippedSections' = {}]_vars

\* the interval was set to 2 while interval mode cut three slots in two
C19_Witness ==
  /\ event.op = "interval"
  /\ autoSplitEnabled
  /\ autoSplitInterval = 2 * Scale
  /\ Len(pageOrder) = 3
  /\ Len(sections) = 2
  /\ skippedSections = {}

\* C20: when Page Order is empty the computed section list is empty, and an
\* export started then emits no file and reports no error.
C20_EmptyOrderExportsNothing ==
  (event.op = "export" /\ event.how = "emptyOrder") =>
    /\ run.sections = << >>
    /\ run.files = << >>
    /\ run.pc = "done" => run.alerts = 0

\* C21: in every emitted file, and in the document being filled, the pages
\* are the logical indices of the retained section in order, duplicates
\* kept; each page carries the rotation the captured Rotation Table holds
\* for its logical index (0 when it has no entry), and setRotation was
\* called exactly for the pages whose rotation is not 0.
C21_ExportedPagesAndRotations ==
  \A kept \in {KeptSections(run)} :
    /\ \A n \in 1..Len(run.files) :
         /\ PagesOf(run.files[n]) = kept[n]
         /\ \A k \in 1..Len(run.files[n].pages) :
              LET exported == run.files[n].pages[k]
                  angle == IF exported.page \in DOMAIN run.rotations
                           THEN run.rotations[exported.page] ELSE 0
              IN  /\ exported.degrees = angle
                  /\ exported.setRotation <=> angle # 0
    /\ run.pc \in {"copy", "save"} =>
         /\ Len(run.doc) <= Len(kept[run.i + 1])
         /\ \A k \in 1..Len(run.doc) :
              LET angle == IF run.doc[k].page \in DOMAIN run.rotations
                           THEN run.rotations[run.doc[k].page] ELSE 0
              IN  /\ run.doc[k].page = kept[run.i + 1][k]
                  /\ run.doc[k].degrees = angle
                  /\ run.doc[k].setRotation <=> angle # 0

\* a duplicated page rotated to 90 is exported twice in the second file, both
\* times rotated, next to an unrotated page
C21_Witness ==
  /\ run.pc = "done"
  /\ Len(run.files) = 2
  /\ PagesOf(run.files[2]) = <<1, 1, 2>>
  /\ run.files[2].pages[1] = [page |-> 1, setRotation |-> TRUE, degrees |-> 90]
  /\ run.files[2].pages[2] = [page |-> 1, setRotation |-> TRUE, degrees |-> 90]
  /\ run.files[2].pages[3] = [page |-> 2, setRotation |-> FALSE, degrees |-> 0]

\* C22: at most one codec operation is in flight at any time: no two export
\* runs are suspended at an awaited codec call at once, also when the
\* Download button is pressed again during a run.
C22_OneCodecOperationInFlight ==
  ~(run.pc \in InFlight /\ run2.pc \in InFlight)

\* C23: when an awaited codec call of a run fails, the run reports one
\* failure and stops: the alert is raised on that step only, the files
\* emitted before it stay as they were, and the run takes no further step
\* (the next change of the run is a new press of the Download button).
C23_FailureAbortsRun ==
  [][/\ run'.alerts # run.alerts /\ run'.pc # "load" =>
          /\ run.pc \in InFlight
          /\ run'.pc = "failed"
          /\ run'.alerts = 1
          /\ run'.files = run.files
     /\ run.alerts > 0 /\ run'.pc # "load" => run' = run
     /\ run'.pc = "failed" <=> run'.alerts = 1
     /\ run'.pc # "failed" => run'.alerts = 0]_vars

\* a run of two sections that failed after its first file
C23_Witness ==
  /\ run.pc = "failed"
  /\ run.alerts = 1
  /\ Len(run.toDownload) = 2
  /\ Len(run.files) = 1
  /\ run.i = 1

\* C24: no step of an export run, resolving or failing, changes the page
\* order, the rotation table, the split markers or the skip set; a run that
\* no user event interrupts therefore ends with the arrangement it captured.
C24_ExportLeavesArrangement ==
  [][run' # run /\ run'.pc # "load" =>
       /\ UNCHANGED <<pageOrder, rotations, splitIndices, skippedSections>>
       /\ UNCHANGED <<file, numPages, autoSplitEnabled, autoSplitInterval>>]_vars

\* a run over a page order with a marker and a skipped section has ended
\* with the skip set it captured still in place
C24_Witness ==
  /\ run.pc \in {"done", "failed"}
  /\ run.calls > 1
  /\ splitIndices # {}
  /\ skippedSections # {}
  /\ run.skipped = skippedSections
  /\ run.sections = sections
  /\ run.rotations = rotations
  /\ rotations # NoRotations
  /\ Len(pageOrder) > numPages

\* C25: after the load of a selected file has failed the arrangement is
\* empty: no slot in the page order, no rotation, no split marker, also when
\* a document had been loaded before.
C25_LoadFailureEmptiesArrangement ==
  docStatus = "failed" =>
    /\ pageOrder = << >>
    /\ rotations = NoRotations
    /\ splitIndices = {}

\* C26: a duplication that inserts the new slot at position q moves every
\* split marker at a position >= q up by one and leaves the markers below
\* q - 1 where they are.
C26_DuplicateShiftsMarkers ==
  [][event'.op = "duplicate" /\ Len(pageOrder') = Len(pageOrder) + 1 =>
       LET q == IndexOf(pageOrder, event'.arg) + 1
       IN  /\ \A m \in splitIndices :
                /\ m >= q => (m + 1) \in splitIndices'
                /\ m < q - 1 => m \in splitIndices'
           /\ \A m \in splitIndices' :
                /\ m > q => (m - 1) \in splitIndices
                /\ m < q - 1 => m \in splitIndices]_vars

\* C27: after every step the preview cursor is null or a slot position of
\* the page order; the render that follows a handler, before the effect has
\* run, shows a preview only for a position inside the new page order, and
\* shows the page of that slot; a deletion that leaves the cursor behind the
\* last slot clears it.
C27_PreviewCursorInRange ==
  [][/\ previewPosition' = NoPreview
          \/ previewPosition'[1] \in 0..(Len(pageOrder') - 1)
     /\ \A position \in {previewPosition, previewPosition'} :
          \A shown \in {previewContext(file', pageOrder', position)} :
            shown # << >> =>
              /\ position[1] \in 0..(Len(pageOrder') - 1)
              /\ shown[1].logicalIndex = pageOrder'[position[1] + 1]
     /\ (event'.op = "delete" /\ previewPosition # NoPreview
           /\ previewPosition[1] >= Len(pageOrder'))
          => previewPosition' = NoPreview]_vars

\* the last slot was deleted while the preview showed it: the cursor is
\* cleared and the page order still has slots
C27_Witness ==
  /\ event.op = "delete"
  /\ event.how = "previewAtEnd"
  /\ event.arg = Len(pageOrder)
  /\ Len(pageOrder) >= 2
  /\ previewPosition = NoPreview

\* C28: in the value-keyed front-end the deletion of logical page x removes
\* every slot that holds x, keeps the other slots in their order, removes
\* the marker keyed to x and leaves every other marker in place.
C28_DeleteByLogicalIndex ==
  [][event'.op = "delete" =>
       LET x == event'.arg
           holds == {k \in DOMAIN pageOrder : pageOrder[k] = x}
           removedBelow(k) == Cardinality({j \in holds : j < k})
       IN  /\ Len(pageOrder') = Len(pageOrder) - Cardinality(holds)
           /\ \A k \in DOMAIN pageOrder' : pageOrder'[k] # x
           /\ \A k \in DOMAIN pageOrder \ holds :
                pageOrder'[k - removedBelow(k)] = pageOrder[k]
           /\ x \notin splitIndices'
           /\ \A m \in 0..MaxPages : m # x => (m \in splitIndices' <=> m \in splitIndices)]_vars

\* a page held by two slots and carrying a marker was deleted from between
\* other pages, one of which keeps its marker
C28_Witness ==
  /\ event.op = "delete"
  /\ event.how = "copiesWithMarker"
  /\ event.arg = 1
  /\ pageOrder = <<0, 2>>
  /\ splitIndices = {0}

\* C29: every started export run ends, by completion or by failure, when
\* each awaited codec call returns or fails; a run makes no more codec
\* calls than one source load, one create and one save per captured section
\* and one copy per captured slot; and with the run ended the buttons of a
\* shown grid and the Download button act as before.
C29_ExportEnds ==
  /\ (run.pc \in InFlight) ~> (run.pc \in {"done", "failed"})
  /\ [](run.calls <= 1 + 2 * Len(run.sections) + Len(Concat(run.sections)))
  /\ [](run.pc \in {"done", "failed"} =>
          /\ (GridShown /\ Len(pageOrder) > 0) =>
               ENABLED (DeletePageAt(0) \/ DuplicatePage(0) \/ RotatePage(0, "right"))
          /\ (file # NoFile /\ Len(sections) # 0) => ENABLED StartExport)

\* a run over two sections has completed after its eight codec calls
C29_Witness ==
  /\ run.pc = "done"
  /\ Len(run.sections) = 2
  /\ Len(run.files) = 2
  /\ run.calls = 1 + 2 * 2 + Len(Concat(run.sections))
  /\ run.calls = 8

\* C30: a rotation of logical page x changes the rotation table entry of x
\* and nothing else: the page order, the split markers, the skip set, the
\* sectioning mode and interval and the computed sections are as before,
\* and every other logical index keeps its entry, or its lack of one; this
\* also when no slot holds x.
C30_RotateChangesOneEntry ==
  [][event'.op = "rotate" =>
       LET x == event'.arg
       IN  /\ UNCHANGED <<pageOrder, splitIndices, skippedSections,
                          autoSplitEnabled, autoSplitInterval, numPages, file>>
           /\ sections' = sections
           /\ x \in DOMAIN rotations'
           /\ rotations'[x] # (IF x \in DOMAIN rotations THEN rotations[x] ELSE 0)
           /\ \A k \in 0..MaxPages :
                k # x =>
                  /\ k \in DOMAIN rotations' <=> k \in DOMAIN rotations
                  /\ k \in DOMAIN rotations => rotations'[k] = rotations[k]]_vars

\* page 0, which no slot holds any more, was rotated while page 1 keeps its
\* rotation and a marker and a skipped section are in place
C30_Witness ==
  /\ event.op = "rotate"
  /\ event.arg = 0
  /\ \A k \in DOMAIN pageOrder : pageOrder[k] # 0
  /\ 0 \in DOMAIN rotations /\ rotations[0] = 270
  /\ 1 \in DOMAIN rotations /\ rotations[1] = 90
  /\ splitIndices # {}
  /\ skippedSections # {}

\* C31: every section computed from the page order and the split markers,
\* and so every section the Download button hands to an export run, holds
\* at least one slot: no emitted document has zero pages.
C31_NoEmptySection ==
  \A secs \in {sections} : \A k \in 1..Len(secs) : Len(secs[k]) > 0

\* C32: in the value-keyed front-end the preview cursor is null or a logical
\* page index that a slot of the page order holds.
C32_PreviewPageInOrder ==
  previewPage = NoPreview
    \/ \E k \in DOMAIN pageOrder : pageOrder[k] = previewPage[1]

\* C33: a run can only be started on a page order that fits the selected
\* file: once the source of a run has been parsed, every logical index of
\* the sections the run captured is a page of the file it captured.
C33_OrderFitsSelectedFile ==
  run.pc \in {"create", "copy", "save", "done"} =>
    \A k \in 1..Len(run.sections) :
      \A n \in 1..Len(run.sections[k]) :
        run.sections[k][n] \in 0..(run.pages - 1)

\* the files a run over the captured sections, skip set and rotation table
\* emits when no call fails
ExpectedFiles(r) ==
  LET kept == KeptSections(r)
  IN  [n \in 1..Len(kept) |->
         [name |-> n,
          pages |-> [k \in 1..Len(kept[n]) |->
                       LET angle == IF kept[n][k] \in DOMAIN r.rotations
                                    THEN r.rotations[kept[n][k]] ELSE 0
                       IN  [page |-> kept[n][k], setRotation |-> angle # 0,
                            degrees |-> angle]]]]

\* C34: a run captures the file, the sections, the skip set and the rotation
\* table of the render in which Download was pressed; no step taken while
\* it is suspended, the page buttons, the split button and the skip toggle
\* included, changes what it captured, and the files it emits are, in
\* number and content, the leading ones of those the captured values
\* determine, all of them once it is done.
C34_RunWorksOnCapturedState ==
  [][/\ (run.pc \notin InFlight /\ run'.pc = "load") =>
          /\ run'.file = file
          /\ run'.sections = sections
          /\ run'.skipped = skippedSections
          /\ run'.rotations = rotations
     /\ run.pc \in InFlight =>
          /\ run'.file = run.file
          /\ run'.sections = run.sections
          /\ run'.skipped = run.skipped
          /\ run'.rotations = run.rotations
     /\ run'.files # run.files =>
          \A expected \in {ExpectedFiles(run')} :
            /\ Len(run'.files) <= Len(expected)
            /\ run'.files = SubSeq(expected, 1, Len(run'.files))
            /\ run'.pc = "done" => run'.files = expected]_vars

\* a run has emitted the two files of the arrangement it captured although,
\* while it was suspended, a page was rotated, a slot duplicated or deleted,
\* the marker removed and a section skipped
C34_Witness ==
  /\ run.pc = "done"
  /\ Len(run.files) = 2
  /\ run.files = ExpectedFiles(run)
  /\ run.rotations = NoRotations /\ rotations # NoRotations
  /\ run.sections # sections
  /\ Len(sections) = 1
  /\ splitIndices = {}
  /\ skippedSections = {0} /\ run.skipped = {}
  /\ Concat(run.sections) # pageOrder

\* C35: the page order is non-decreasing: every slot holds a logical index
\* not greater than the one of the next slot, so the slots that hold one
\* page are adjacent.
C35_PageOrderNonDecreasing ==
  \A k \in 1..(Len(pageOrder) - 1) : pageOrder[k] <= pageOrder[k + 1]

\* page 1 was deleted and page 2 duplicated: the copies of page 2 are
\* adjacent, after page 0
C35_Witness ==
  /\ event.op = "duplicate"
  /\ event.arg = 2
  /\ pageOrder = <<0, 2, 2>>

\* C36: the stored auto-split interval is at least 1 (Scale units of
\* 1/Scale) whatever is typed into the interval field; so each iteration of
\* the interval loop starts at least one slot after the one before, each
\* interval section holds at least one slot, and there are no more sections
\* than slots.
C36_IntervalAtLeastOne ==
  /\ autoSplitInterval >= Scale
  /\ autoSplitEnabled =>
       \A secs \in {sections} :
         /\ Len(secs) <= Len(pageOrder)
         /\ \A k \in 1..Len(secs) : Len(secs[k]) >= 1

\* -1 was typed into the field: 1 is stored, and the three slots of the page
\* order make three interval sections
C36_Witness ==
  /\ event.op = "interval"
  /\ event.how = "number"
  /\ event.arg = 0 - Scale
  /\ autoSplitInterval = Scale
  /\ autoSplitEnabled
  /\ Len(pageOrder) = 3
  /\ Len(sections) = 3

\* C37: a deletion shifts the split markers exactly once, however often the
\* page order updater is evaluated: the markers after the step are those
\* one application of the shift gives.
C37_ShiftAppliedOnce ==
  [][event'.op = "delete" =>
       splitIndices' = shiftSplits(splitIndices, event'.arg, pageOrder')]_vars

====
